---- MODULE Spec2Model ----
(***************************************************************************)
(* poismf: alternating optimisation driver run_poismf (src/src/poismf.c).  *)
(*                                                                         *)
(* A double is modelled as a binary fixed-point number: <<m, 1>> is the    *)
(* finite value m / Scale, <<1, 0>> is +inf, <<-1, 0>> is -inf and         *)
(* <<0, 0>> is NaN.  Every arithmetic operation rounds its exact result to *)
(* the nearest representable value (ties away from zero), overflows to an  *)
(* infinity past Limit and underflows to zero, as IEEE arithmetic does at  *)
(* its own precision and range; zero is unsigned (1/0 = +inf).             *)
(* Sequences are 1-based, so a row or column index i of the C code is i+1  *)
(* here; offsets stored in the indptr arrays keep their C values.          *)
(***************************************************************************)
EXTENDS Integers, Sequences, FiniteSets, TLC

\* ------------------------------------------------------------ doubles

Abs(n) == IF n < 0 THEN -n ELSE n

Sign(n) == IF n > 0 THEN 1 ELSE IF n < 0 THEN -1 ELSE 0

\* units per 1.0, and the largest finite magnitude in units
Scale == 8 * 8
Limit == 128 * 128

NaN == <<0, 0>>
PInf == <<1, 0>>
NInf == <<-1, 0>>

IsFinite(x) == x[2] # 0

\* m units as a double: past the range it is an infinity
Fin(m) == IF m > Limit THEN PInf ELSE IF m < -Limit THEN NInf ELSE <<m, 1>>

\* n / d (d > 0) rounded to the nearest integer, ties away from zero
RoundDiv(n, d) == Sign(n) * ((2 * Abs(n) + d) \div (2 * d))

R(n) == <<n * Scale, 1>>
Zero == <<0, 1>>
One == R(1)
Two == R(2)
Half == <<Scale \div 2, 1>>

\* the infinity or NaN of sign s
Special(s) == <<Sign(s), 0>>

RMul(x, y) ==
    IF IsFinite(x) /\ IsFinite(y) THEN Fin(RoundDiv(x[1] * y[1], Scale))
    ELSE IF x = NaN \/ y = NaN THEN NaN
    ELSE Special(x[1] * y[1])

RAdd(x, y) ==
    IF IsFinite(x) /\ IsFinite(y) THEN Fin(x[1] + y[1])
    ELSE IF x = NaN \/ y = NaN THEN NaN
    ELSE IF ~IsFinite(x) /\ ~IsFinite(y) THEN (IF x = y THEN x ELSE NaN)
    ELSE IF IsFinite(x) THEN y ELSE x

RNeg(x) == <<-x[1], x[2]>>

\* x / y: x/0 is an infinity of the sign of x (0/0 = NaN), x/inf = 0
RDiv(x, y) ==
    IF x = NaN \/ y = NaN THEN NaN
    ELSE IF IsFinite(x) /\ IsFinite(y)
         THEN (IF y[1] = 0 THEN Special(x[1])
               ELSE Fin(Sign(y[1]) * RoundDiv(x[1] * Scale, Abs(y[1]))))
    ELSE IF IsFinite(x) THEN Zero
    ELSE IF IsFinite(y) THEN Special(x[1] * (IF y[1] < 0 THEN -1 ELSE 1))
    ELSE NaN

\* x > 0. as a double comparison: false for NaN
RGt0(x) == x[1] > 0

\* x >= 0. as a double comparison: false for NaN and -inf
RGe0(x) == x # NaN /\ x[1] >= 0

\* ------------------------------------------------------------ helpers

\* nonneg without the clipping
nonneg_identity(x) == x

\* #define nonneg(x) (((x) > 0.)? (x) : 0.)
nonneg(x) == IF RGt0(x) THEN x ELSE Zero

\* cblas_dscal(n, alpha, x, 1): x *= alpha
dscal(alpha, x) == [i \in 1..Len(x) |-> RMul(alpha, x[i])]

\* cblas_daxpy(n, alpha, x, 1, y, 1): y += alpha * x
daxpy(alpha, x, y) == [i \in 1..Len(y) |-> RAdd(y[i], RMul(alpha, x[i]))]

RECURSIVE DotFrom(_, _, _)
DotFrom(x, y, i) ==
    IF i > Len(x) THEN Zero ELSE RAdd(RMul(x[i], y[i]), DotFrom(x, y, i + 1))

\* cblas_ddot(n, x, 1, y, 1)
ddot(x, y) == DotFrom(x, y, 1)

Zeros(k) == [i \in 1..k |-> Zero]

\* the value of a buffer element that was allocated and not yet written
Undef == <<>>

\* arr[off], arr[off+1], ..., arr[off+n-1] of the C array (off is 0-based)
Slice(arr, off, n) == [j \in 1..n |-> arr[off + j]]

RECURSIVE SumRowsFrom(_, _, _, _)
SumRowsFrom(acc, M, row, nrow) ==
    IF row > nrow THEN acc
    ELSE SumRowsFrom(daxpy(One, M[row], acc), M, row + 1, nrow)

\* sum_by_cols(out, M, nrow, ncol): out = column sums of M
sum_by_cols(M, nrow, ncol) == SumRowsFrom(Zeros(ncol), M, 1, nrow)

RECURSIVE AccumFixedRows(_, _, _, _, _)
AccumFixedRows(acc, B, Xr_indices, ix, last) ==
    IF ix >= last THEN acc
    ELSE AccumFixedRows(daxpy(One, B[Xr_indices[ix + 1]], acc), B, Xr_indices, ix + 1, last)

\* adjustment_row scaling by w_mult instead of w_mult - 1
adjustment_row_full_weight(B, Bsum, Xr_indices, Xr_indptr, row, k, w_mult) ==
    LET summed == AccumFixedRows(Zeros(k), B, Xr_indices, Xr_indptr[row], Xr_indptr[row + 1])
    IN  daxpy(One, Bsum, dscal(w_mult, summed))

\* one row of adjustment_Bsum: sum of the B rows of the row's stored indices,
\* scaled by new_w = w_mult - 1, plus Bsum
adjustment_row(B, Bsum, Xr_indices, Xr_indptr, row, k, w_mult) ==
    LET summed == AccumFixedRows(Zeros(k), B, Xr_indices, Xr_indptr[row], Xr_indptr[row + 1])
        new_w  == RAdd(w_mult, R(-1))
    IN  daxpy(One, Bsum, dscal(new_w, summed))

\* adjustment_Bsum(B, Bsum, Bsum_user, Xr_indices, Xr_indptr, dimA, k, w_mult, nthreads):
\* the new contents of Bsum_user; rows past dimA keep what they held
adjustment_Bsum(B, Bsum, Bsum_user, Xr_indices, Xr_indptr, dimA, k, w_mult) ==
    [row \in 1..Len(Bsum_user) |->
        IF row <= dimA
        THEN adjustment_row(B, Bsum, Xr_indices, Xr_indptr, row, k, w_mult)
        ELSE Bsum_user[row]]

\* dscal_large(n, alpha, x) on the first nrow rows of a row-major matrix
dscal_large(nrow, alpha, M) ==
    [row \in 1..Len(M) |-> IF row <= nrow THEN dscal(alpha, M[row]) ELSE M[row]]

\* ------------------------------------------------------------ proximal gradient

RECURSIVE GradFrom(_, _, _, _, _, _, _)
GradFrom(out, curr, F, X, Xind, ix, nnz_this) ==
    IF ix > nnz_this THEN out
    ELSE GradFrom(daxpy(RDiv(X[ix], ddot(F[Xind[ix]], curr)), F[Xind[ix]], out),
                  curr, F, X, Xind, ix + 1, nnz_this)

\* calc_grad_pgd(out, curr, F, X, Xind, nnz_this, k)
calc_grad_pgd(curr, F, X, Xind, nnz_this, k) ==
    GradFrom(Zeros(k), curr, F, X, Xind, 1, nnz_this)

\* one pass of the body of the loop over p in pg_iteration, on the row a
pg_update(a, B, X, Xind, nnz_this, k, step_size, Bsum, cnst_div) ==
    LET grad   == calc_grad_pgd(a, B, X, Xind, nnz_this, k)
        stepped == daxpy(step_size, grad, a)
        summed  == daxpy(One, Bsum, stepped)
        scaled  == dscal(cnst_div, summed)
    IN  [ix \in 1..k |-> nonneg(scaled[ix])]

RECURSIVE pg_updates(_, _, _, _, _, _, _, _, _, _)
pg_updates(a, B, X, Xind, nnz_this, k, step_size, Bsum, cnst_div, p) ==
    IF p = 0 THEN a
    ELSE pg_updates(pg_update(a, B, X, Xind, nnz_this, k, step_size, Bsum, cnst_div),
                    B, X, Xind, nnz_this, k, step_size, Bsum, cnst_div, p - 1)

\* the body of the parallel loop of pg_iteration for row ia: the new row ia of A
pg_iteration(A, B, Xr, Xr_indptr, Xr_indices, ia, k, cnst_div, cnst_sum, Bsum_user, step_size, w_mult, maxupd) ==
    LET step_w   == RMul(step_size, w_mult)
        nnz_this == Xr_indptr[ia + 1] - Xr_indptr[ia]
        Bsum     == IF w_mult # One THEN Bsum_user[ia] ELSE cnst_sum
    IN  pg_updates(A[ia], B, Slice(Xr, Xr_indptr[ia], nnz_this),
                   Slice(Xr_indices, Xr_indptr[ia], nnz_this), nnz_this, k,
                   step_w, Bsum, cnst_div, maxupd)

\* ------------------------------------------------------------ external minimizers

\* fdata handed to minimize_nonneg_cg / tnc for row ia by cg_iteration and
\* tncg_iteration: { B, Bsum, Xr, X_ind, nnz_this, l2_reg, w_mult, k }
solver_data(B, Xr, Xr_indptr, Xr_indices, ia, k, Bsum, l2_reg, w_mult, Bsum_w) ==
    LET nnz_this == Xr_indptr[ia + 1] - Xr_indptr[ia]
    IN  [B |-> B,
         Bsum |-> IF w_mult # One THEN Bsum_w[ia] ELSE Bsum,
         Xr |-> Slice(Xr, Xr_indptr[ia], nnz_this),
         X_ind |-> Slice(Xr_indices, Xr_indptr[ia], nnz_this),
         nnz_this |-> nnz_this,
         l2_reg |-> l2_reg, w_mult |-> w_mult, k |-> k]

\* minimize_nonneg_cg and tnc (bounds [0, +inf)) are external: they leave a_row
\* where it was (no progress within the budget) or at another point of the
\* non-negative orthant
minimizer_results(a_row, k) == {a_row, [i \in 1..k |-> One]}

\* ------------------------------------------------------------ caller's inputs

\* the columns (1-based) of the nonzero entries of a dense row
NzCols(row) == SelectSeq([j \in 1..Len(row) |-> j], LAMBDA j : row[j] # 0)

RECURSIVE CsrVals(_, _)
CsrVals(M, r) ==
    IF r > Len(M) THEN <<>>
    ELSE [j \in 1..Len(NzCols(M[r])) |-> R(M[r][NzCols(M[r])[j]])] \o CsrVals(M, r + 1)

RECURSIVE CsrIndices(_, _)
CsrIndices(M, r) ==
    IF r > Len(M) THEN <<>> ELSE NzCols(M[r]) \o CsrIndices(M, r + 1)

RECURSIVE CsrOffset(_, _)
CsrOffset(M, r) ==
    IF r = 1 THEN 0 ELSE CsrOffset(M, r - 1) + Len(NzCols(M[r - 1]))

CsrIndptr(M) == [r \in 1..(Len(M) + 1) |-> CsrOffset(M, r)]

Transpose(M) == [j \in 1..Len(M[1]) |-> [i \in 1..Len(M) |-> M[i][j]]]

\* the arguments of a call of run_poismf on the count matrix M (dense, rows of
\* naturals): X in row-sparse and in column-sparse form, and the parameters
Arguments(M, k, l2, l1, w, step, method, numiter, maxupd) ==
    [Xr |-> CsrVals(M, 1), Xr_indptr |-> CsrIndptr(M), Xr_indices |-> CsrIndices(M, 1),
     Xc |-> CsrVals(Transpose(M), 1), Xc_indptr |-> CsrIndptr(Transpose(M)),
     Xc_indices |-> CsrIndices(Transpose(M), 1),
     dimA |-> Len(M), dimB |-> Len(M[1]), k |-> k,
     l2_reg |-> l2, l1_reg |-> l1, w_mult |-> w, step_size |-> step,
     method |-> method, numiter |-> numiter, maxupd |-> maxupd]

MaxNumIter == 2
MaxUpd == 2

\* count matrices: the identity pattern, and a pattern whose stored values come
\* in a different order by rows (1, 2) and by columns (2, 1)
CountMatrices ==
    { << <<1, 0>>, <<0, 1>> >>,
      << <<0, 1>>, <<2, 0>> >> }

\* initial factor matrices (k = 2 columns), all entries positive
InitialA == { << <<One, One>>, <<One, One>> >>, << <<Two, One>>, <<One, Half>> >> }
InitialB == { << <<One, One>>, <<One, Two>> >> }

Methods == {"pg", "cg", "tncg"}

ArgumentSets ==
    { Arguments(M, 2, l2, l1, w, Half, method, numiter, maxupd) :
        M \in CountMatrices, l2 \in {Zero, One}, l1 \in {Zero, One}, w \in {One, Two},
        method \in Methods, numiter \in 0..MaxNumIter, maxupd \in 1..MaxUpd }

\* ------------------------------------------------------------ state

VARIABLES
    pc,                     \* where run_poismf is: "idle" when no call is active
    arg,                    \* the arguments of the call (the const ones)
    A, B,                   \* the factor matrices, owned by the caller
    step_size, neg_step_sz, cnst_div, fulliter, ret_code,   \* locals of run_poismf
    cnst_sum, Bsum_w,       \* contents of the aggregate buffers
    buf,                    \* each malloc'ed pointer: "null", "live" or "freed"
    should_stop_procedure,  \* the global flag
    handler,                \* TRUE once signal(SIGINT, set_interrup_global_variable) ran
    rowsDone,               \* rows of the running parallel loop already processed
    fdata,                  \* the data of the last call of an external minimizer
    A0, B0,                 \* history: A and B at the entry of the call
    frees,                  \* history: number of free() calls on each pointer
    failed,                 \* history: a malloc of this call returned NULL
    misuse,                 \* history: a buffer was used while not live
    early,                  \* history: the flag was set when the call was entered, or an
                            \*          interrupt request arrived before its reset (line 394)
    intr,                   \* history: the passes begun or committed to when the first
                            \*          request after the reset arrived; -1 when none has
    stopped,                \* history: the check that saw the flag set: "no", "A" or "B"
    halfA, halfB,           \* history: half-iterations completed on A and on B
    nthreads,               \* the argument nthreads: the size of the team of workers
    wrow,                   \* each worker's loop variable ia: its current row, 0 when
                            \*          it is between rows
    wphase,                 \* where each worker is in the body of the loop
    wp,                     \* each worker's loop variable p (pg_iteration)
    buffer_arr,             \* contents of the scratch buffer, where this code reads them
    rowWriters,             \* history: the workers that wrote each row in this pass
    dslice,                 \* history: the cells of buffer_arr each worker was handed
    islice                  \* history: the cells of buffer_int each worker was handed

vars == <<pc, arg, A, B, step_size, neg_step_sz, cnst_div, fulliter, ret_code,
          cnst_sum, Bsum_w, buf, should_stop_procedure, handler, rowsDone, fdata,
          A0, B0, frees, failed, misuse, early, intr, stopped, halfA, halfB,
          nthreads, wrow, wphase, wp, buffer_arr, rowWriters, dslice, islice>>

\* the state of the team of workers
par == <<nthreads, wrow, wphase, wp, buffer_arr, rowWriters, dslice, islice>>

\* worker ids: omp_get_thread_num() of a team of n threads
Workers(n) == 0..(n - 1)

\* a team of n workers outside the parallel loops, nothing recorded
TeamIdle(n) ==
    /\ nthreads = n
    /\ wrow = [t \in Workers(n) |-> 0]
    /\ wphase = [t \in Workers(n) |-> "idle"]
    /\ wp = [t \in Workers(n) |-> 0]
    /\ dslice = [t \in Workers(n) |-> {}]
    /\ islice = [t \in Workers(n) |-> {}]

Buffers == {"cnst_sum", "buffer_arr", "Bsum_w", "buffer_int", "zeros_tncg", "inf_tncg"}

NoData == <<>>

Init ==
    /\ pc = "idle"
    /\ arg = NoData
    /\ A = NoData
    /\ B = NoData
    /\ step_size = Undef
    /\ neg_step_sz = Undef
    /\ cnst_div = Undef
    /\ fulliter = 0
    /\ ret_code = 0
    /\ cnst_sum = Undef
    /\ Bsum_w = Undef
    /\ buf = [b \in Buffers |-> "null"]
    /\ should_stop_procedure = FALSE
    /\ handler = FALSE
    /\ rowsDone = {}
    /\ fdata = NoData
    /\ A0 = NoData
    /\ B0 = NoData
    /\ frees = [b \in Buffers |-> 0]
    /\ failed = FALSE
    /\ misuse = FALSE
    /\ early = FALSE
    /\ intr = -1
    /\ stopped = "no"
    /\ halfA = 0
    /\ halfB = 0
    /\ TeamIdle(1)
    /\ buffer_arr = Undef
    /\ rowWriters = NoData

\* ------------------------------------------------------------ run_poismf

Max(a, b) == IF a > b THEN a ELSE b

\* free(p): releases a live block, does nothing on NULL
free(state) == IF state = "live" THEN "freed" ELSE state

\* the buffers a step reads or writes must be live
Uses(bs) == misuse' = (misuse \/ \E b \in bs : buf[b] # "live")

\* the for statement of line 420: the loop body or, past numiter, the cleanup
LoopTarget(iter) == IF iter < arg.numiter THEN "sigA" ELSE "cleanup"

\* the entry of run_poismf without the reset of the flag
flag_at_entry_kept(flag) == flag

\* line 394: should_stop_procedure = false
flag_at_entry(flag) == FALSE

\* the check of line 412 without its test of cnst_sum
oom_base_arr_only(bufs) == bufs["buffer_arr"] = "null"

\* line 412: if (buffer_arr == NULL || cnst_sum == NULL)
oom_base(bufs) == bufs["buffer_arr"] = "null" \/ bufs["cnst_sum"] = "null"

\* a boundary check that ignores the flag
check_stop_ignored(flag, continue) == continue

\* line 423: if (should_stop_procedure) goto cleanup;
check_stop_A(flag, continue) == IF flag THEN "cleanup" ELSE continue

\* line 470: if (should_stop_procedure) goto cleanup;
check_stop_B(flag, continue) == IF flag THEN "cleanup" ELSE continue

\* a caller calls run_poismf on its initialized matrices
Call ==
    /\ pc = "idle"
    /\ pc' = "entry"
    /\ arg' \in ArgumentSets
    /\ A' \in InitialA
    /\ B' \in InitialB
    /\ step_size' = arg'.step_size
    /\ A0' = A'
    /\ B0' = B'
    /\ early' = should_stop_procedure
    /\ UNCHANGED <<neg_step_sz, cnst_div, fulliter, ret_code, cnst_sum, Bsum_w, buf,
                   should_stop_procedure, handler, rowsDone, fdata, frees, failed,
                   misuse, intr, stopped, halfA, halfB>>
    /\ UNCHANGED par

\* the caller has taken the status and the matrices of the finished call; the
\* process keeps the flag and the installed handler
Release ==
    /\ pc = "done"
    /\ pc' = "idle"
    /\ arg' = NoData
    /\ A' = NoData
    /\ B' = NoData
    /\ step_size' = Undef
    /\ neg_step_sz' = Undef
    /\ cnst_div' = Undef
    /\ fulliter' = 0
    /\ ret_code' = 0
    /\ cnst_sum' = Undef
    /\ Bsum_w' = Undef
    /\ buf' = [b \in Buffers |-> "null"]
    /\ rowsDone' = {}
    /\ fdata' = NoData
    /\ A0' = NoData
    /\ B0' = NoData
    /\ frees' = [b \in Buffers |-> 0]
    /\ failed' = FALSE
    /\ misuse' = FALSE
    /\ early' = FALSE
    /\ intr' = -1
    /\ stopped' = "no"
    /\ halfA' = 0
    /\ halfB' = 0
    /\ UNCHANGED <<should_stop_procedure, handler>>
    /\ UNCHANGED par

\* lines 377-394: the first two mallocs, the locals, and the reset of the flag
Entry ==
    /\ pc = "entry"
    /\ \E sumOk \in BOOLEAN, arrOk \in BOOLEAN :
          /\ buf' = [buf EXCEPT !["cnst_sum"] = IF sumOk THEN "live" ELSE "null",
                                !["buffer_arr"] = IF arrOk THEN "live" ELSE "null"]
          /\ failed' = ~(sumOk /\ arrOk)
    /\ neg_step_sz' = RNeg(step_size)
    /\ ret_code' = 0
    /\ should_stop_procedure' = flag_at_entry(should_stop_procedure)
    /\ pc' = "alloc"
    /\ UNCHANGED <<arg, A, B, step_size, cnst_div, fulliter, cnst_sum, Bsum_w, handler,
                   rowsDone, fdata, A0, B0, frees, misuse, early, intr, stopped,
                   halfA, halfB>>
    /\ UNCHANGED par

\* lines 397-418: the remaining mallocs and the out-of-memory checks
Allocate ==
    /\ pc = "alloc"
    /\ \E wOk \in BOOLEAN, intOk \in BOOLEAN, zerosOk \in BOOLEAN, infOk \in BOOLEAN :
          LET needW   == arg.w_mult # One
              oomW    == needW /\ ~wOk
              needT   == ~oomW /\ arg.method = "tncg"
              oomT    == needT /\ ~(intOk /\ zerosOk /\ infOk)
              oomBase == oom_base(buf)
              oom     == oomW \/ oomT \/ oomBase
          IN  /\ needW \/ wOk
              /\ needT \/ (intOk /\ zerosOk /\ infOk)
              /\ buf' = [buf EXCEPT
                     !["Bsum_w"] = IF needW /\ wOk THEN "live" ELSE "null",
                     !["buffer_int"] = IF needT /\ intOk THEN "live" ELSE "null",
                     !["zeros_tncg"] = IF needT /\ zerosOk THEN "live" ELSE "null",
                     !["inf_tncg"] = IF needT /\ infOk THEN "live" ELSE "null"]
              /\ Bsum_w' = IF needW /\ wOk
                           THEN [row \in 1..Max(arg.dimA, arg.dimB) |-> Undef]
                           ELSE Bsum_w
              /\ failed' = (failed \/ oomW \/ oomT)
              /\ ret_code' = IF oom THEN 1 ELSE ret_code
              /\ pc' = IF oom THEN "cleanup" ELSE LoopTarget(fulliter)
    /\ UNCHANGED <<arg, A, B, step_size, neg_step_sz, cnst_div, fulliter, cnst_sum,
                   should_stop_procedure, handler, rowsDone, fdata, A0, B0, frees, misuse,
                   early, intr, stopped, halfA, halfB>>
    /\ UNCHANGED par

\* lines 422 and 469: signal(SIGINT, set_interrup_global_variable)
InstallHandler ==
    /\ pc \in {"sigA", "sigB"}
    /\ handler' = TRUE
    /\ pc' = IF pc = "sigA" THEN "checkA" ELSE "checkB"
    /\ UNCHANGED <<arg, A, B, step_size, neg_step_sz, cnst_div, fulliter, ret_code,
                   cnst_sum, Bsum_w, buf, should_stop_procedure, rowsDone, fdata,
                   A0, B0, frees, failed, misuse, early, intr, stopped,
                   halfA, halfB>>
    /\ UNCHANGED par

\* line 423: if (should_stop_procedure) goto cleanup;
CheckA ==
    /\ pc = "checkA"
    /\ pc' = check_stop_A(should_stop_procedure, "aggA")
    /\ stopped' = IF should_stop_procedure THEN "A" ELSE stopped
    /\ UNCHANGED <<arg, A, B, step_size, neg_step_sz, cnst_div, fulliter, ret_code,
                   cnst_sum, Bsum_w, buf, should_stop_procedure, handler, rowsDone, fdata,
                   A0, B0, frees, failed, misuse, early, intr, halfA, halfB>>
    /\ UNCHANGED par

\* line 470: if (should_stop_procedure) goto cleanup;
CheckB ==
    /\ pc = "checkB"
    /\ pc' = check_stop_B(should_stop_procedure, "aggB")
    /\ stopped' = IF should_stop_procedure THEN "B" ELSE stopped
    /\ UNCHANGED <<arg, A, B, step_size, neg_step_sz, cnst_div, fulliter, ret_code,
                   cnst_sum, Bsum_w, buf, should_stop_procedure, handler, rowsDone, fdata,
                   A0, B0, frees, failed, misuse, early, intr, halfA, halfB>>
    /\ UNCHANGED par

\* line 426: cnst_div = 1. / (1. + 2. * l2_reg * step_size)
cnst_div_of(l2_reg, step) == RDiv(One, RAdd(One, RMul(RMul(Two, l2_reg), step)))

\* lines 427-429 and 474-476: the column sums of the fixed matrix, plus l1_reg
aggregate_sum(F, nrow, k, l1_reg) ==
    LET sums == sum_by_cols(F, nrow, k)
    IN  IF RGt0(l1_reg) THEN [kk \in 1..k |-> RAdd(sums[kk], l1_reg)] ELSE sums

\* lines 427-433: cnst_sum and Bsum_w for the half-iteration on A (B fixed)
aggregate_A(g, fixedB, bsumw) ==
    LET sums == aggregate_sum(fixedB, g.dimB, g.k, g.l1_reg)
    IN  [cnst_sum |-> sums,
         Bsum_w |-> IF g.w_mult # One
                    THEN adjustment_Bsum(fixedB, sums, bsumw, g.Xr_indices, g.Xr_indptr,
                                         g.dimA, g.k, g.w_mult)
                    ELSE bsumw]

\* lines 474-480: cnst_sum and Bsum_w for the half-iteration on B (A fixed)
aggregate_B(g, fixedA, bsumw) ==
    LET sums == aggregate_sum(fixedA, g.dimA, g.k, g.l1_reg)
    IN  [cnst_sum |-> sums,
         Bsum_w |-> IF g.w_mult # One
                    THEN adjustment_Bsum(fixedA, sums, bsumw, g.Xc_indices, g.Xc_indptr,
                                         g.dimB, g.k, g.w_mult)
                    ELSE bsumw]

\* lines 438-442 (case pg, A free): the scaling by neg_step_sz before pg_iteration
scale_A(g, sums, bsumw, neg_step) ==
    LET first == IF g.w_mult = One
                 THEN [cnst_sum |-> dscal(neg_step, sums), Bsum_w |-> bsumw]
                 ELSE [cnst_sum |-> sums, Bsum_w |-> dscal_large(g.dimA, neg_step, bsumw)]
    IN  [cnst_sum |-> dscal(neg_step, first.cnst_sum), Bsum_w |-> first.Bsum_w]

\* lines 485-488 (case pg, B free): the scaling by neg_step_sz before pg_iteration
scale_B(g, sums, bsumw, neg_step) ==
    IF g.w_mult = One
    THEN [cnst_sum |-> dscal(neg_step, sums), Bsum_w |-> bsumw]
    ELSE [cnst_sum |-> sums, Bsum_w |-> dscal_large(g.dimB, neg_step, bsumw)]

\* lines 443-445: pg_iteration(A, B, Xr, Xr_indptr, Xr_indices, dimA, ...), row ia
pg_row_A(g, freeA, fixedB, cdiv, sums, bsumw, step, ia) ==
    pg_iteration(freeA, fixedB, g.Xr, g.Xr_indptr, g.Xr_indices, ia, g.k, cdiv,
                 sums, bsumw, step, g.w_mult, g.maxupd)

\* lines 489-491: pg_iteration(B, A, Xc, Xc_indptr, Xc_indices, dimB, ...), row ib
pg_row_B(g, freeB, fixedA, cdiv, sums, bsumw, step, ib) ==
    pg_iteration(freeB, fixedA, g.Xc, g.Xc_indptr, g.Xc_indices, ib, g.k, cdiv,
                 sums, bsumw, step, g.w_mult, g.maxupd)

\* lines 246-285: the data cg_iteration hands to minimize_nonneg_cg for row ia
cg_iteration(fixedB, Xr, Xr_indptr, Xr_indices, ia, k, Bsum, l2_reg, w_mult, bsumw) ==
    solver_data(fixedB, Xr, Xr_indptr, Xr_indices, ia, k, Bsum, l2_reg, w_mult, bsumw)

\* lines 287-333: the data tncg_iteration hands to tnc for row ia
tncg_iteration(fixedB, Xr, Xr_indptr, Xr_indices, ia, k, Bsum, l2_reg, w_mult, bsumw) ==
    solver_data(fixedB, Xr, Xr_indptr, Xr_indices, ia, k, Bsum, l2_reg, w_mult, bsumw)

\* lines 449-466 (cases cg and tncg, A free): the minimizer's problem for row ia
solver_call_A(g, fixedB, sums, bsumw, ia) ==
    IF g.method = "cg"
    THEN cg_iteration(fixedB, g.Xr, g.Xr_indptr, g.Xr_indices, ia, g.k, sums,
                      g.l2_reg, g.w_mult, bsumw)
    ELSE tncg_iteration(fixedB, g.Xr, g.Xr_indptr, g.Xr_indices, ia, g.k, sums,
                        g.l2_reg, g.w_mult, bsumw)

\* lines 499-516 (cases cg and tncg, B free): the minimizer's problem for row ib
solver_call_B(g, fixedA, sums, bsumw, ib) ==
    IF g.method = "cg"
    THEN cg_iteration(fixedA, g.Xr, g.Xc_indptr, g.Xc_indices, ib, g.k, sums,
                      g.l2_reg, g.w_mult, bsumw)
    ELSE tncg_iteration(fixedA, g.Xc, g.Xc_indptr, g.Xc_indices, ib, g.k, sums,
                        g.l2_reg, g.w_mult, bsumw)

\* the step left as it is
decrease_step_none(step) == step

\* line 494: step_size *= 0.5
decrease_step(step) == RMul(step, Half)

\* the cleanup without free(Bsum_w)
cleanup_frees_leak == Buffers \ {"Bsum_w"}

\* lines 521-526: the pointers handed to free()
cleanup_frees == Buffers

\* the buffers the aggregate computation writes
AggregateBuffers == IF arg.w_mult # One THEN {"cnst_sum", "Bsum_w"} ELSE {"cnst_sum"}

\* the buffers a row solver pass reads and writes
PassBuffers ==
    AggregateBuffers \cup {"buffer_arr"}
        \cup (IF arg.method = "tncg" THEN {"buffer_int", "zeros_tncg", "inf_tncg"} ELSE {})

\* lines 426-433
AggregateA ==
    /\ pc = "aggA"
    /\ cnst_div' = cnst_div_of(arg.l2_reg, step_size)
    /\ LET agg == aggregate_A(arg, B, Bsum_w)
       IN  cnst_sum' = agg.cnst_sum /\ Bsum_w' = agg.Bsum_w
    /\ Uses(AggregateBuffers)
    /\ pc' = "scaleA"
    /\ UNCHANGED <<arg, A, B, step_size, neg_step_sz, fulliter, ret_code, buf,
                   should_stop_procedure, handler, rowsDone, fdata, A0, B0, frees, failed,
                   early, intr, stopped, halfA, halfB>>
    /\ UNCHANGED par

\* lines 474-480
AggregateB ==
    /\ pc = "aggB"
    /\ LET agg == aggregate_B(arg, A, Bsum_w)
       IN  cnst_sum' = agg.cnst_sum /\ Bsum_w' = agg.Bsum_w
    /\ Uses(AggregateBuffers)
    /\ pc' = "scaleB"
    /\ UNCHANGED <<arg, A, B, step_size, neg_step_sz, cnst_div, fulliter, ret_code, buf,
                   should_stop_procedure, handler, rowsDone, fdata, A0, B0, frees, failed,
                   early, intr, stopped, halfA, halfB>>
    /\ UNCHANGED par

\* lines 435-442, 449, 458: the switch on the method up to the call of the row solver
ScaleA ==
    /\ pc = "scaleA"
    /\ IF arg.method = "pg"
       THEN LET sc == scale_A(arg, cnst_sum, Bsum_w, neg_step_sz)
            IN  cnst_sum' = sc.cnst_sum /\ Bsum_w' = sc.Bsum_w
       ELSE UNCHANGED <<cnst_sum, Bsum_w>>
    /\ Uses(AggregateBuffers)
    /\ rowsDone' = {}
    /\ pc' = "passA"
    /\ UNCHANGED <<arg, A, B, step_size, neg_step_sz, cnst_div, fulliter, ret_code, buf,
                   should_stop_procedure, handler, fdata, A0, B0, frees, failed,
                   early, intr, stopped, halfA, halfB>>
    /\ UNCHANGED par

\* lines 482-488, 499, 508
ScaleB ==
    /\ pc = "scaleB"
    /\ IF arg.method = "pg"
       THEN LET sc == scale_B(arg, cnst_sum, Bsum_w, neg_step_sz)
            IN  cnst_sum' = sc.cnst_sum /\ Bsum_w' = sc.Bsum_w
       ELSE UNCHANGED <<cnst_sum, Bsum_w>>
    /\ Uses(AggregateBuffers)
    /\ rowsDone' = {}
    /\ pc' = "passB"
    /\ UNCHANGED <<arg, A, B, step_size, neg_step_sz, cnst_div, fulliter, ret_code, buf,
                   should_stop_procedure, handler, fdata, A0, B0, frees, failed,
                   early, intr, stopped, halfA, halfB>>
    /\ UNCHANGED par

\* one iteration of the parallel loop over the rows of A (lines 140-161, 270-284,
\* 315-332), on a row no worker has taken yet; the loop ends when every row is done
RowA ==
    /\ pc = "passA"
    /\ \E ia \in (1..arg.dimA) \ rowsDone :
          /\ IF arg.method = "pg"
             THEN /\ A' = [A EXCEPT ![ia] = pg_row_A(arg, A, B, cnst_div, cnst_sum,
                                                     Bsum_w, step_size, ia)]
                  /\ fdata' = fdata
             ELSE /\ fdata' = solver_call_A(arg, B, cnst_sum, Bsum_w, ia)
                  /\ \E a_row \in minimizer_results(A[ia], arg.k) :
                        A' = [A EXCEPT ![ia] = a_row]
          /\ rowsDone' = rowsDone \cup {ia}
          /\ pc' = IF rowsDone' = 1..arg.dimA THEN "sigB" ELSE pc
          /\ halfA' = IF rowsDone' = 1..arg.dimA THEN halfA + 1 ELSE halfA
    /\ Uses(PassBuffers)
    /\ UNCHANGED <<arg, B, step_size, neg_step_sz, cnst_div, fulliter, ret_code,
                   cnst_sum, Bsum_w, buf, should_stop_procedure, handler,
                   A0, B0, frees, failed, early, intr, stopped, halfB>>
    /\ UNCHANGED par

\* one iteration of the parallel loop over the rows of B
RowB ==
    /\ pc = "passB"
    /\ \E ib \in (1..arg.dimB) \ rowsDone :
          /\ IF arg.method = "pg"
             THEN /\ B' = [B EXCEPT ![ib] = pg_row_B(arg, B, A, cnst_div, cnst_sum,
                                                     Bsum_w, step_size, ib)]
                  /\ fdata' = fdata
             ELSE /\ fdata' = solver_call_B(arg, A, cnst_sum, Bsum_w, ib)
                  /\ \E b_row \in minimizer_results(B[ib], arg.k) :
                        B' = [B EXCEPT ![ib] = b_row]
          /\ rowsDone' = rowsDone \cup {ib}
          /\ pc' = IF rowsDone' = 1..arg.dimB THEN "endIter" ELSE pc
          /\ halfB' = IF rowsDone' = 1..arg.dimB THEN halfB + 1 ELSE halfB
    /\ Uses(PassBuffers)
    /\ UNCHANGED <<arg, A, step_size, neg_step_sz, cnst_div, fulliter, ret_code,
                   cnst_sum, Bsum_w, buf, should_stop_procedure, handler,
                   A0, B0, frees, failed, early, intr, stopped, halfA>>
    /\ UNCHANGED par

\* lines 493-497 and the fulliter++ of line 420
EndIter ==
    /\ pc = "endIter"
    /\ IF arg.method = "pg"
       THEN /\ step_size' = decrease_step(step_size)
            /\ neg_step_sz' = RNeg(step_size')
       ELSE UNCHANGED <<step_size, neg_step_sz>>
    /\ fulliter' = fulliter + 1
    /\ pc' = LoopTarget(fulliter')
    /\ UNCHANGED <<arg, A, B, cnst_div, ret_code, cnst_sum, Bsum_w, buf,
                   should_stop_procedure, handler, rowsDone, fdata, A0, B0, frees, failed,
                   misuse, early, intr, stopped, halfA, halfB>>
    /\ UNCHANGED par

\* lines 520-529: the frees, the reset of the flag, and the return
Cleanup ==
    /\ pc = "cleanup"
    /\ buf' = [b \in Buffers |-> IF b \in cleanup_frees THEN free(buf[b]) ELSE buf[b]]
    /\ frees' = [b \in Buffers |->
                    IF b \in cleanup_frees /\ buf[b] # "null" THEN frees[b] + 1 ELSE frees[b]]
    /\ misuse' = (misuse \/ \E b \in cleanup_frees : buf[b] = "freed")
    /\ should_stop_procedure' = FALSE
    /\ pc' = "done"
    /\ UNCHANGED <<arg, A, B, step_size, neg_step_sz, cnst_div, fulliter, ret_code,
                   cnst_sum, Bsum_w, handler, rowsDone, fdata, A0, B0, failed,
                   early, intr, stopped, halfA, halfB>>
    /\ UNCHANGED par

\* the passes completed, plus the one that is running or that the last boundary
\* check has let through
Committed ==
    halfA + halfB
        + (IF pc \in {"aggA", "scaleA", "passA", "aggB", "scaleB", "passB"} THEN 1 ELSE 0)

\* lines 336-340: SIGINT is delivered to the installed handler
set_interrup_global_variable ==
    /\ handler
    /\ should_stop_procedure' = TRUE
    /\ early' = (early \/ pc = "entry")
    /\ intr' = IF intr = -1 /\ pc \notin {"idle", "done", "entry"} THEN Committed ELSE intr
    /\ UNCHANGED <<pc, arg, A, B, step_size, neg_step_sz, cnst_div, fulliter, ret_code,
                   cnst_sum, Bsum_w, buf, handler, rowsDone, fdata, A0, B0, frees, failed,
                   misuse, stopped, halfA, halfB>>
    /\ UNCHANGED par

Next ==
    \/ Call
    \/ Release
    \/ Entry
    \/ Allocate
    \/ InstallHandler
    \/ CheckA
    \/ AggregateA
    \/ ScaleA
    \/ RowA
    \/ CheckB
    \/ AggregateB
    \/ ScaleB
    \/ RowB
    \/ EndIter
    \/ Cleanup
    \/ set_interrup_global_variable

Spec == Init /\ [][Next]_vars

\* ------------------------------------------------------------ properties

InCall == pc \notin {"idle", "done"}

Returned == pc = "done"

Unmodified == A = A0 /\ B = B0

NoWorkDone ==
    /\ Unmodified
    /\ halfA = 0 /\ halfB = 0
    /\ cnst_sum = Undef /\ cnst_div = Undef

\* C1: when a malloc of the call fails, run_poismf goes from the allocations
\* straight to the cleanup and returns 1, with no aggregate computed, no row
\* solved and A and B as at entry; when no malloc fails it returns 0.
C1_AllocationFailure ==
    /\ (failed /\ pc \notin {"idle", "entry", "alloc"}) =>
           (pc \in {"cleanup", "done"} /\ ret_code = 1 /\ NoWorkDone)
    /\ (Returned /\ ~failed) => ret_code = 0

C1_Witness ==
    Returned /\ failed /\ ret_code = 1 /\ buf["cnst_sum"] = "freed" /\ buf["Bsum_w"] = "freed"

\* C2 as stated: when the flag is set before any outer iteration has executed
\* (at the entry of the call, or by a request arriving before the first boundary
\* check has let the first pass through), the call returns 0 with A and B
\* unmodified.  Calls in which a malloc fails are left out: they return 1 (C1).
C2_Original ==
    (Returned /\ ~failed /\ (early \/ intr = 0)) => (ret_code = 0 /\ Unmodified)

\* C2, amended: when the flag is set at the boundary check that opens the first
\* outer iteration, the call goes to the cleanup and returns 0 with A and B
\* unmodified and no half-iteration done.
C2_CancelBeforeFirstIteration ==
    (stopped = "A" /\ fulliter = 0) =>
        (pc \in {"cleanup", "done"} /\ ret_code = 0 /\ ~failed /\ NoWorkDone)

C2_Witness ==
    Returned /\ stopped = "A" /\ fulliter = 0 /\ ret_code = 0 /\ Unmodified

\* a parallel loop over the rows is either not running or has done every row
PassComplete == rowsDone = {} \/ rowsDone = 1..arg.dimA \/ rowsDone = 1..arg.dimB

\* C3 as stated: after an interrupt request arriving at any point of the call,
\* no pass starts beyond the next boundary check and the call returns 0, with
\* the half-iterations on A and B equal or one more on A, and no partial pass.
\* Calls in which a malloc fails are left out: they return 1 (C1).
C3_Original ==
    (Returned /\ ~failed /\ (early \/ intr >= 0)) =>
        /\ ret_code = 0
        /\ halfA + halfB <= (IF early THEN 0 ELSE intr)
        /\ halfA \in {halfB, halfB + 1}
        /\ PassComplete

\* C3, amended: the flag is read at the two boundary checks only.  A check that
\* finds it set sends the call to the cleanup with status 0; a request that
\* arrives after the reset of line 394 lets the committed pass finish over all
\* rows and lets no further pass start, and the call returns 0 unless a malloc
\* failed; at return the half-iterations on A and B are equal or A has one
\* more, and no pass is left partial.
C3_CancelAtBoundaries ==
    /\ (stopped # "no") => (pc \in {"cleanup", "done"} /\ ret_code = 0)
    /\ (pc \notin {"idle", "passA", "passB"}) => PassComplete
    /\ Returned =>
          /\ halfA \in {halfB, halfB + 1}
          /\ (intr >= 0) => (halfA + halfB <= intr /\ (~failed => ret_code = 0))

C3_Witness ==
    Returned /\ stopped = "B" /\ intr = 1 /\ halfA = 1 /\ halfB = 0 /\ ret_code = 0
        /\ A # A0

Entries(M) == {M[i][j] : i \in 1..Len(M), j \in 1..arg.k}

\* C4: from non-negative A and B, every entry of A and B is >= 0 in every state
\* of the call, so after every half-iteration of every outer iteration, for each
\* method (the external minimizers returning points of the non-negative orthant).
C4_NonNegativity ==
    (pc # "idle") => \A x \in Entries(A) \cup Entries(B) : RGe0(x)

\* a projected-gradient pass has clipped an entry of A to zero
C4_Witness ==
    /\ arg # NoData /\ arg.method = "pg" /\ pc = "sigB"
    /\ \E i \in 1..arg.dimA, j \in 1..arg.k : A[i][j] = Zero /\ A0[i][j] # Zero

\* 0.5^n
HalfPow(n) == <<Scale \div (2 ^ n), 1>>

\* C5: with method pg, throughout outer iteration n = fulliter the step is
\* s0 * 0.5^n, in step_size (gradient scaling), in neg_step_sz (scaling of the
\* aggregate) and in cnst_div = 1 / (1 + 2 * l2 * step), in the A half and in
\* the B half alike.
C5_StepDecay ==
    (InCall /\ arg.method = "pg" /\ pc \in {"sigA", "checkA", "aggA", "scaleA", "passA",
                                            "sigB", "checkB", "aggB", "scaleB", "passB",
                                            "endIter"}) =>
        LET step_n == RMul(arg.step_size, HalfPow(fulliter))
        IN  /\ step_size = step_n
            /\ neg_step_sz = RNeg(step_n)
            /\ (pc \notin {"sigA", "checkA", "aggA"}) =>
                   cnst_div = RDiv(One, RAdd(One, RMul(RMul(Two, arg.l2_reg), step_n)))

C5_Witness ==
    /\ pc = "passB" /\ arg.method = "pg" /\ fulliter = 1
    /\ step_size = <<Scale \div 4, 1>> /\ arg.l2_reg = One

\* the half-iteration on A of a call with arguments g, for row ia: what lines
\* 426-467 leave in row ia (pg) or hand to the external minimizer (cg, tncg)
HalfA(g, freeA, fixedB, step, ia) ==
    LET agg == aggregate_A(g, fixedB, [row \in 1..Max(g.dimA, g.dimB) |-> Undef])
        sc  == scale_A(g, agg.cnst_sum, agg.Bsum_w, RNeg(step))
    IN  IF g.method = "pg"
        THEN pg_row_A(g, freeA, fixedB, cnst_div_of(g.l2_reg, step), sc.cnst_sum,
                      sc.Bsum_w, step, ia)
        ELSE solver_call_A(g, fixedB, agg.cnst_sum, agg.Bsum_w, ia)

\* the half-iteration on B (lines 473-517), for row ib
HalfB(g, freeB, fixedA, step, ib) ==
    LET agg == aggregate_B(g, fixedA, [row \in 1..Max(g.dimA, g.dimB) |-> Undef])
        sc  == scale_B(g, agg.cnst_sum, agg.Bsum_w, RNeg(step))
    IN  IF g.method = "pg"
        THEN pg_row_B(g, freeB, fixedA, cnst_div_of(g.l2_reg, step), sc.cnst_sum,
                      sc.Bsum_w, step, ib)
        ELSE solver_call_B(g, fixedA, agg.cnst_sum, agg.Bsum_w, ib)

\* the call on the transposed count matrix: the two sparse views and the two
\* dimensions change places (the caller then passes B as A and A as B)
TransposedCall(g) ==
    [g EXCEPT !.Xr = g.Xc, !.Xr_indptr = g.Xc_indptr, !.Xr_indices = g.Xc_indices,
              !.Xc = g.Xr, !.Xc_indptr = g.Xr_indptr, !.Xc_indices = g.Xr_indices,
              !.dimA = g.dimB, !.dimB = g.dimA]

\* C6: for every method and weight, the half-iteration on B of the call on the
\* transposed inputs (free matrix A, fixed matrix B) gives every row what the
\* half-iteration on A gives it on the original inputs, at the same step.
C6_RoleSymmetry ==
    (pc = "entry") =>
        \A ia \in 1..arg.dimA :
            HalfB(TransposedCall(arg), A, B, step_size, ia) = HalfA(arg, A, B, step_size, ia)

\* the part of C6 the code keeps: tncg, and pg with a weight other than 1
C6_SymmetricCases ==
    (pc = "entry" /\ (arg.method = "tncg" \/ (arg.method = "pg" /\ arg.w_mult # One))) =>
        \A ia \in 1..arg.dimA :
            HalfB(TransposedCall(arg), A, B, step_size, ia) = HalfA(arg, A, B, step_size, ia)

RECURSIVE ColSum(_, _, _)
ColSum(F, j, n) == IF n = 0 THEN Zero ELSE RAdd(ColSum(F, j, n - 1), F[n][j])

\* the baseline: column sums of the fixed matrix, plus l1 when l1 > 0
Baseline(F, nrow, k, l1) ==
    [j \in 1..k |-> IF RGt0(l1) THEN RAdd(ColSum(F, j, nrow), l1) ELSE ColSum(F, j, nrow)]

RECURSIVE NzSum(_, _, _, _, _)
NzSum(F, indices, first, last, j) ==
    IF last <= first THEN Zero
    ELSE RAdd(NzSum(F, indices, first, last - 1, j), F[indices[last]][j])

\* baseline + (weight - 1) * (sum of the fixed rows stored for row i)
Correction(F, base, indices, indptr, i, k, weight) ==
    [j \in 1..k |->
        RAdd(base[j], RMul(RAdd(weight, R(-1)),
                           NzSum(F, indices, indptr[i], indptr[i + 1], j)))]

\* C7: adjustment_Bsum writes, for every row i < dimA, baseline + (w_mult - 1) *
\* (sum of the rows of the fixed matrix at the indices stored for row i), in both
\* half-iterations, and leaves the baseline and the fixed matrix as they were;
\* with w_mult = 1 (on the finite matrices a caller supplies) every row it
\* writes is the baseline.
C7_WeightedCorrection ==
    /\ (pc = "scaleA" /\ arg.w_mult # One) =>
          /\ cnst_sum = Baseline(B, arg.dimB, arg.k, arg.l1_reg)
          /\ \A i \in 1..arg.dimA :
                Bsum_w[i] = Correction(B, cnst_sum, arg.Xr_indices, arg.Xr_indptr, i,
                                       arg.k, arg.w_mult)
          /\ (fulliter = 0) => B = B0
    /\ (pc = "scaleB" /\ arg.w_mult # One) =>
          /\ cnst_sum = Baseline(A, arg.dimA, arg.k, arg.l1_reg)
          /\ \A i \in 1..arg.dimB :
                Bsum_w[i] = Correction(A, cnst_sum, arg.Xc_indices, arg.Xc_indptr, i,
                                       arg.k, arg.w_mult)
    /\ (pc = "entry") =>
          LET base == Baseline(B, arg.dimB, arg.k, arg.l1_reg)
              out  == adjustment_Bsum(B, base, [row \in 1..arg.dimA |-> Undef],
                                      arg.Xr_indices, arg.Xr_indptr, arg.dimA, arg.k, One)
          IN  \A i \in 1..arg.dimA : out[i] = base

C7_Witness ==
    /\ pc = "scaleB" /\ arg.w_mult = Two /\ fulliter = 1
    /\ \E i \in 1..arg.dimB : Bsum_w[i] # cnst_sum

\* C8: no buffer is used unless it is live, none is freed twice, and when the
\* call has returned every buffer it had allocated has been freed exactly once,
\* on every path (all iterations done, cancellation, failed malloc).
C8_BufferLifecycle ==
    /\ ~misuse
    /\ \A b \in Buffers : frees[b] <= 1
    /\ Returned => \A b \in Buffers : buf[b] # "live" /\ (buf[b] = "freed" <=> frees[b] = 1)

C8_Witness ==
    /\ Returned /\ failed /\ arg.method = "tncg"
    /\ buf["Bsum_w"] = "freed" /\ buf["zeros_tncg"] = "freed" /\ buf["inf_tncg"] = "null"

\* C9: the flag is false once the entry of run_poismf has run and false when the
\* call returns, whatever the outcome; only the signal handler sets it; so a
\* boundary check finds it set only when a request arrived in this very call,
\* after its reset.
C9_FlagReset ==
    /\ []((InCall /\ pc # "entry" /\ should_stop_procedure) => intr >= 0)
    /\ []((stopped # "no") => intr >= 0)
    /\ [][(pc = "entry" /\ pc' = "alloc") => ~should_stop_procedure']_vars
    /\ [][(pc = "cleanup" /\ pc' = "done") => ~should_stop_procedure']_vars
    /\ [][(~should_stop_procedure /\ should_stop_procedure') => (handler /\ pc' = pc)]_vars

\* a call entered with the flag set, after an earlier cancelled call, ran all
\* its iterations
C9_Witness ==
    /\ Returned /\ early /\ stopped = "no" /\ ~failed
    /\ arg.numiter = MaxNumIter /\ halfB = arg.numiter /\ ret_code = 0

RECURSIVE ClaimGrad(_, _, _, _, _, _)
ClaimGrad(a, F, xs, cols, n, j) ==
    IF n = 0 THEN Zero
    ELSE RAdd(ClaimGrad(a, F, xs, cols, n - 1, j),
              RMul(RDiv(xs[n], ddot(a, F[cols[n]])), F[cols[n]][j]))

\* nonneg((a + step*weight*g(a) - step*S) / (1 + 2*l2*step)), the division done
\* as the multiplication by the reciprocal
ClaimStep(a, F, xs, cols, S, step, weight, l2, k) ==
    [j \in 1..k |->
        LET moved == RAdd(RAdd(a[j], RMul(RMul(step, weight),
                                         ClaimGrad(a, F, xs, cols, Len(xs), j))),
                          RMul(RNeg(step), S[j]))
            res   == RMul(moved, RDiv(One, RAdd(One, RMul(RMul(Two, l2), step))))
        IN  IF RGt0(res) THEN res ELSE Zero]

RECURSIVE ClaimSteps(_, _, _, _, _, _, _, _, _, _)
ClaimSteps(a, F, xs, cols, S, step, weight, l2, k, p) ==
    IF p = 0 THEN a
    ELSE ClaimSteps(ClaimStep(a, F, xs, cols, S, step, weight, l2, k),
                    F, xs, cols, S, step, weight, l2, k, p - 1)

\* the aggregate in effect for row i: the baseline, or the row's correction
ClaimS(F, nrow, indices, indptr, i) ==
    LET base == Baseline(F, nrow, arg.k, arg.l1_reg)
    IN  IF arg.w_mult = One THEN base
        ELSE Correction(F, base, indices, indptr, i, arg.k, arg.w_mult)

RowSlice(arr, indptr, i) == Slice(arr, indptr[i], indptr[i + 1] - indptr[i])

ClaimRowA(ia) ==
    ClaimSteps(A[ia], B, RowSlice(arg.Xr, arg.Xr_indptr, ia),
               RowSlice(arg.Xr_indices, arg.Xr_indptr, ia),
               ClaimS(B, arg.dimB, arg.Xr_indices, arg.Xr_indptr, ia),
               step_size, arg.w_mult, arg.l2_reg, arg.k, arg.maxupd)

ClaimRowB(ib) ==
    ClaimSteps(B[ib], A, RowSlice(arg.Xc, arg.Xc_indptr, ib),
               RowSlice(arg.Xc_indices, arg.Xc_indptr, ib),
               ClaimS(A, arg.dimA, arg.Xc_indices, arg.Xc_indptr, ib),
               step_size, arg.w_mult, arg.l2_reg, arg.k, arg.maxupd)

\* C10: in both half-iterations and for every weight, the pg pass takes each row
\* through maxupd steps a <- nonneg((a + step*weight*g(a) - step*S) /
\* (1 + 2*l2*step)), with S the aggregate in effect for the row.
C10_PgUpdate ==
    /\ (pc = "passA" /\ arg.method = "pg") =>
          \A ia \in (1..arg.dimA) \ rowsDone :
              pg_row_A(arg, A, B, cnst_div, cnst_sum, Bsum_w, step_size, ia) = ClaimRowA(ia)
    /\ (pc = "passB" /\ arg.method = "pg") =>
          \A ib \in (1..arg.dimB) \ rowsDone :
              pg_row_B(arg, B, A, cnst_div, cnst_sum, Bsum_w, step_size, ib) = ClaimRowB(ib)

\* the part of C10 the code keeps: the half-iteration on B, and the one on A
\* with a weight other than 1
C10_CorrectCases ==
    /\ (pc = "passA" /\ arg.method = "pg" /\ arg.w_mult # One) =>
          \A ia \in (1..arg.dimA) \ rowsDone :
              pg_row_A(arg, A, B, cnst_div, cnst_sum, Bsum_w, step_size, ia) = ClaimRowA(ia)
    /\ (pc = "passB" /\ arg.method = "pg") =>
          \A ib \in (1..arg.dimB) \ rowsDone :
              pg_row_B(arg, B, A, cnst_div, cnst_sum, Bsum_w, step_size, ib) = ClaimRowB(ib)

\* ------------------------------------------------------------ the team of workers

MaxThreads == 2

\* lines 381-387: the number of doubles malloc'ed for buffer_arr
size_buffer(method, k, n) ==
    (CASE method = "pg" -> 1 [] method = "cg" -> 5 [] method = "tncg" -> 22) * (k * n)

\* line 403: the number of ints malloc'ed for buffer_int
size_buffer_int(k, n) == k * n

\* a slot that does not depend on the worker
slot_offset_shared(tid, size) == 0

\* size * omp_get_thread_num(): the offset of the worker's slot (lines 148, 283,
\* 324, 330, 331)
slot_offset(tid, size) == size * tid

\* the cells off, off+1, ..., off+len-1 of a C array
Cells(off, len) == off..(off + len - 1)

\* minimize_nonneg_cg works in the 5*k doubles that follow the pointer it is given
cg_workspace(k) == 5 * k

\* tnc works in the 21*k doubles that follow its work pointer, in the k doubles
\* of its gradient pointer and in the k ints of its int pointer
tnc_workspace(k) == 21 * k

\* lines 148-153: calc_grad_pgd and cblas_daxpy on buffer_arr + k*omp_get_thread_num()
pg_cells(tid, k) == Cells(slot_offset(tid, k), k)

\* line 283: buffer_arr + 5*k*omp_get_thread_num()
cg_cells(tid, k) == Cells(slot_offset(tid, 5 * k), cg_workspace(k))

\* lines 324 and 330: buffer_arr + omp_get_thread_num()*22*k (+ 21*k)
tncg_cells(tid, k) ==
    Cells(slot_offset(tid, 22 * k) + 21 * k, k)
        \cup Cells(slot_offset(tid, 22 * k), tnc_workspace(k))

\* line 331: buffer_int + omp_get_thread_num()*k
tncg_int_cells(tid, k) == Cells(slot_offset(tid, k), k)

\* the cells of buffer_arr the body of the loop uses in worker tid
scratch_cells(method, tid, k) ==
    CASE method = "pg" -> pg_cells(tid, k)
      [] method = "cg" -> cg_cells(tid, k)
      [] method = "tncg" -> tncg_cells(tid, k)

\* mem with vals stored from cell off on (cells past the end of mem are not kept)
WriteCells(mem, off, vals) ==
    [i \in 1..Len(mem) |->
        IF i > off /\ i <= off + Len(vals) THEN vals[i - off] ELSE mem[i]]

\* lines 151-158 of pg_iteration: the row after the step along the gradient
\* found in the scratch slot
pg_apply(a, grad, k, step_w, Bsum, div) ==
    LET stepped == daxpy(step_w, grad, a)
        summed  == daxpy(One, Bsum, stepped)
        scaled  == dscal(div, summed)
    IN  [ix \in 1..k |-> nonneg(scaled[ix])]

InPass == pc \in {"passA", "passB"}

\* the rows of the running loop, its free and fixed matrices and its sparse view
PassRows == 1..(IF pc = "passA" THEN arg.dimA ELSE arg.dimB)
PassFree == IF pc = "passA" THEN A ELSE B
PassFixed == IF pc = "passA" THEN B ELSE A
PassX == IF pc = "passA" THEN arg.Xr ELSE arg.Xc
PassIndptr == IF pc = "passA" THEN arg.Xr_indptr ELSE arg.Xc_indptr
PassIndices == IF pc = "passA" THEN arg.Xr_indices ELSE arg.Xc_indices

\* the write of a row through the pointer A + ia*k of the row solver
WriteFreeRow(ia, row) ==
    IF pc = "passA"
    THEN A' = [A EXCEPT ![ia] = row] /\ B' = B
    ELSE B' = [B EXCEPT ![ia] = row] /\ A' = A

\* the worker leaves the body of the loop for row ia
RowFinished(t, ia) ==
    /\ wrow' = [wrow EXCEPT ![t] = 0]
    /\ wphase' = [wphase EXCEPT ![t] = "idle"]
    /\ rowsDone' = rowsDone \cup {ia}

\* schedule(dynamic): a worker between rows is handed a row no worker has had
WorkerTake(t) ==
    /\ InPass
    /\ wrow[t] = 0
    /\ \E ia \in PassRows \ (rowsDone \cup {wrow[u] : u \in Workers(nthreads)}) :
          wrow' = [wrow EXCEPT ![t] = ia]
    /\ wphase' = [wphase EXCEPT ![t] = IF arg.method = "pg" THEN "grad" ELSE "solve"]
    /\ wp' = [wp EXCEPT ![t] = 0]
    /\ UNCHANGED <<pc, arg, A, B, step_size, neg_step_sz, cnst_div, fulliter, ret_code,
                   cnst_sum, Bsum_w, buf, should_stop_procedure, handler, rowsDone, fdata,
                   A0, B0, frees, failed, misuse, early, intr, stopped, halfA, halfB,
                   nthreads, buffer_arr, rowWriters, dslice, islice>>

\* lines 148-150 of pg_iteration: calc_grad_pgd into the worker's slot
WorkerGrad(t) ==
    /\ InPass
    /\ wphase[t] = "grad"
    /\ LET ia       == wrow[t]
           nnz_this == PassIndptr[ia + 1] - PassIndptr[ia]
           grad     == calc_grad_pgd(PassFree[ia], PassFixed,
                                     Slice(PassX, PassIndptr[ia], nnz_this),
                                     Slice(PassIndices, PassIndptr[ia], nnz_this),
                                     nnz_this, arg.k)
       IN  buffer_arr' = WriteCells(buffer_arr, slot_offset(t, arg.k), grad)
    /\ dslice' = [dslice EXCEPT ![t] = @ \cup pg_cells(t, arg.k)]
    /\ wphase' = [wphase EXCEPT ![t] = "update"]
    /\ Uses(PassBuffers)
    /\ UNCHANGED <<pc, arg, A, B, step_size, neg_step_sz, cnst_div, fulliter, ret_code,
                   cnst_sum, Bsum_w, buf, should_stop_procedure, handler, rowsDone, fdata,
                   A0, B0, frees, failed, early, intr, stopped, halfA, halfB,
                   nthreads, wrow, wp, rowWriters, islice>>

\* lines 151-158 of pg_iteration: the step from the slot's gradient, and p++
WorkerUpdate(t) ==
    /\ InPass
    /\ wphase[t] = "update"
    /\ LET ia     == wrow[t]
           grad   == Slice(buffer_arr, slot_offset(t, arg.k), arg.k)
           step_w == RMul(step_size, arg.w_mult)
           Bsum   == IF arg.w_mult # One THEN Bsum_w[ia] ELSE cnst_sum
       IN  /\ WriteFreeRow(ia, pg_apply(PassFree[ia], grad, arg.k, step_w, Bsum, cnst_div))
           /\ rowWriters' = [rowWriters EXCEPT ![ia] = @ \cup {t}]
           /\ wp' = [wp EXCEPT ![t] = @ + 1]
           /\ IF wp[t] + 1 < arg.maxupd
              THEN /\ wphase' = [wphase EXCEPT ![t] = "grad"]
                   /\ UNCHANGED <<wrow, rowsDone>>
              ELSE RowFinished(t, ia)
    /\ dslice' = [dslice EXCEPT ![t] = @ \cup pg_cells(t, arg.k)]
    /\ Uses(PassBuffers)
    /\ UNCHANGED <<pc, arg, step_size, neg_step_sz, cnst_div, fulliter, ret_code,
                   cnst_sum, Bsum_w, buf, should_stop_procedure, handler, fdata,
                   A0, B0, frees, failed, early, intr, stopped, halfA, halfB,
                   nthreads, buffer_arr, islice>>

\* lines 270-283 of cg_iteration and 317-331 of tncg_iteration: the call of the
\* external minimizer on the row, with the worker's slots as its workspace
WorkerSolve(t) ==
    /\ InPass
    /\ wphase[t] = "solve"
    /\ LET ia == wrow[t]
       IN  /\ fdata' = IF pc = "passA"
                       THEN solver_call_A(arg, B, cnst_sum, Bsum_w, ia)
                       ELSE solver_call_B(arg, A, cnst_sum, Bsum_w, ia)
           /\ \E row \in minimizer_results(PassFree[ia], arg.k) : WriteFreeRow(ia, row)
           /\ rowWriters' = [rowWriters EXCEPT ![ia] = @ \cup {t}]
           /\ RowFinished(t, ia)
    /\ dslice' = [dslice EXCEPT ![t] = @ \cup scratch_cells(arg.method, t, arg.k)]
    /\ islice' = [islice EXCEPT ![t] =
                     IF arg.method = "tncg" THEN @ \cup tncg_int_cells(t, arg.k) ELSE @]
    /\ Uses(PassBuffers)
    /\ UNCHANGED <<pc, arg, step_size, neg_step_sz, cnst_div, fulliter, ret_code,
                   cnst_sum, Bsum_w, buf, should_stop_procedure, handler,
                   A0, B0, frees, failed, early, intr, stopped, halfA, halfB,
                   nthreads, wp, buffer_arr>>

\* the end of the parallel loop (lines 161, 284, 332): every row is done and the
\* team has joined
Join ==
    /\ InPass
    /\ rowsDone = PassRows
    /\ \A t \in Workers(nthreads) : wrow[t] = 0
    /\ pc' = IF pc = "passA" THEN "sigB" ELSE "endIter"
    /\ halfA' = IF pc = "passA" THEN halfA + 1 ELSE halfA
    /\ halfB' = IF pc = "passB" THEN halfB + 1 ELSE halfB
    /\ rowWriters' = [row \in DOMAIN rowWriters |-> {}]
    /\ UNCHANGED <<arg, A, B, step_size, neg_step_sz, cnst_div, fulliter, ret_code,
                   cnst_sum, Bsum_w, buf, should_stop_procedure, handler, rowsDone, fdata,
                   A0, B0, frees, failed, misuse, early, intr, stopped,
                   nthreads, wrow, wphase, wp, buffer_arr, dslice, islice>>

\* calls of one outer iteration whose mallocs all succeeded
ParArgumentSets ==
    { Arguments(M, 2, l2, Zero, w, Half, method, 1, maxupd) :
        M \in CountMatrices, l2 \in {Zero, One}, w \in {One, Two},
        method \in Methods, maxupd \in 1..MaxUpd }

\* run_poismf at line 443, 451 or 460 of its first outer iteration: the mallocs
\* succeeded, no interrupt arrived, the aggregates of the A half are computed
InitPar ==
    /\ pc = "passA"
    /\ arg \in ParArgumentSets
    /\ A \in InitialA
    /\ B \in InitialB
    /\ step_size = arg.step_size
    /\ neg_step_sz = RNeg(step_size)
    /\ cnst_div = cnst_div_of(arg.l2_reg, step_size)
    /\ fulliter = 0
    /\ ret_code = 0
    /\ LET bw  == IF arg.w_mult # One
                  THEN [row \in 1..Max(arg.dimA, arg.dimB) |-> Undef]
                  ELSE Undef
           agg == aggregate_A(arg, B, bw)
           sc  == IF arg.method = "pg"
                  THEN scale_A(arg, agg.cnst_sum, agg.Bsum_w, neg_step_sz)
                  ELSE agg
       IN  cnst_sum = sc.cnst_sum /\ Bsum_w = sc.Bsum_w
    /\ buf = [b \in Buffers |-> IF b \in PassBuffers THEN "live" ELSE "null"]
    /\ should_stop_procedure = FALSE
    /\ handler = TRUE
    /\ rowsDone = {}
    /\ fdata = NoData
    /\ A0 = A
    /\ B0 = B
    /\ frees = [b \in Buffers |-> 0]
    /\ failed = FALSE
    /\ misuse = FALSE
    /\ early = FALSE
    /\ intr = -1
    /\ stopped = "no"
    /\ halfA = 0
    /\ halfB = 0
    /\ \E n \in 1..MaxThreads : TeamIdle(n)
    /\ buffer_arr = [i \in 1..size_buffer(arg.method, arg.k, nthreads) |-> Undef]
    /\ rowWriters = [row \in 1..Max(arg.dimA, arg.dimB) |-> {}]

NextPar ==
    \/ \E t \in Workers(nthreads) : WorkerTake(t)
    \/ \E t \in Workers(nthreads) : WorkerGrad(t)
    \/ \E t \in Workers(nthreads) : WorkerUpdate(t)
    \/ \E t \in Workers(nthreads) : WorkerSolve(t)
    \/ Join
    \/ InstallHandler
    \/ CheckB
    \/ AggregateB
    \/ ScaleB

SpecPar == InitPar /\ [][NextPar]_vars

\* the size of a worker's slot of doubles: k for pg, 5k for cg, 22k for tncg
SlotSize == arg.k * (CASE arg.method = "pg" -> 1 [] arg.method = "cg" -> 5
                       [] arg.method = "tncg" -> 22)

\* C11: in a row-parallel pass of pg_iteration, cg_iteration or tncg_iteration,
\* whatever rows the workers 0..nthreads-1 are handed: each row of the free
\* matrix is written by at most one worker, and by exactly one once it is done;
\* no step of a worker changes the fixed matrix, cnst_sum or Bsum_w; the cells of
\* buffer_arr a worker uses are the SlotSize cells from id*SlotSize on (and the
\* k cells of buffer_int from id*k on for tncg), inside the allocated buffers
\* and disjoint from every other worker's cells.
C11_RaceFreedom ==
    /\ [](InPass =>
            /\ \A row \in PassRows : Cardinality(rowWriters[row]) <= 1
            /\ \A row \in rowsDone : Cardinality(rowWriters[row]) = 1)
    /\ [](\A t \in Workers(nthreads) :
            /\ dslice[t] \subseteq Cells(0, size_buffer(arg.method, arg.k, nthreads))
            /\ islice[t] \subseteq Cells(0, size_buffer_int(arg.k, nthreads))
            /\ dslice[t] \in {{}, Cells(t * SlotSize, SlotSize)}
            /\ islice[t] \in {{}, Cells(t * arg.k, arg.k)}
            /\ (arg.method = "tncg") => (islice[t] = {} <=> dslice[t] = {})
            /\ \A u \in Workers(nthreads) \ {t} :
                  dslice[t] \cap dslice[u] = {} /\ islice[t] \cap islice[u] = {})
    /\ [][(InPass /\ pc' = pc) =>
            (PassFixed' = PassFixed /\ cnst_sum' = cnst_sum /\ Bsum_w' = Bsum_w)]_vars

\* the pass on B of tncg_iteration is done, each of its rows written by another
\* worker of the largest team
C11_Witness ==
    /\ pc = "passB" /\ rowsDone = PassRows /\ arg.method = "tncg"
    /\ nthreads = MaxThreads
    /\ rowWriters[1] = {nthreads - 1} /\ rowWriters[2] = {0}
    /\ dslice[nthreads - 1] # {} /\ islice[nthreads - 1] # {}

\* with the slots disjoint, a finished pass of pg_iteration leaves in every row
\* what the loop run by a single worker leaves
PgPassSerial ==
    /\ (pc = "passA" /\ arg.method = "pg" /\ rowsDone = PassRows) =>
          \A ia \in PassRows :
              A[ia] = pg_row_A(arg, A0, B, cnst_div, cnst_sum, Bsum_w, step_size, ia)
    /\ (pc = "passB" /\ arg.method = "pg" /\ rowsDone = PassRows) =>
          \A ib \in PassRows :
              B[ib] = pg_row_B(arg, B0, A, cnst_div, cnst_sum, Bsum_w, step_size, ib)

====
